---- MODULE Spec2Model ----
(***************************************************************************)
(* Research resolution engine of miahela/ai-personalization.               *)
(*                                                                         *)
(* Two pipelines live in the repository and both are modelled:             *)
(*   impl = "main" : src/main.py, process_company (strategy loop followed  *)
(*                   by the personalization step);                         *)
(*   impl = "old"  : src/aiwrite-old-code-for-reference.py,                *)
(*                   research_company followed by the per-company part of  *)
(*                   main().                                               *)
(*                                                                         *)
(* Strings are sequences of tokens; every token stands for a fixed number  *)
(* of characters (TokLen).  Python's None is the one-token text NoneText   *)
(* for strings and the record NoneUrl for URLs.  The external services     *)
(* (search provider, page/transcript fetcher, completion model) answer     *)
(* nondeterministically at the moment they are called.                     *)
(*                                                                         *)
(* The specifications:                                                     *)
(*   Spec      : one company through either pipeline, on an empty cache    *)
(*               directory;                                                *)
(*   SpecOld   : one company through the old pipeline, on the cache        *)
(*               directory an earlier run left (file absent, fresh or      *)
(*               expired);                                                 *)
(*   SpecCache : cache_result and get_cached_result called in any order    *)
(*               for two names while the days pass;                        *)
(*   SpecRun   : the loop of main() over a list of company rows, with the  *)
(*               output rows and the delays between companies;             *)
(*   SpecFault : one company through the old pipeline when the cache file  *)
(*               cannot be read and a cache write may fail;                *)
(*   SpecRace  : the cache steps of two old pipelines that work on the     *)
(*               same company at the same time;                            *)
(*   SpecSvc   : the calls of SearchService (src/search_service.py) on one *)
(*               instance, in any order.                                   *)
(***************************************************************************)
EXTENDS Integers, Sequences, FiniteSets, TLC

\* ---------------------------------------------------------------- bounds
MaxStrategies == 2      \* longest strategy list explored
MaxResults == 4         \* longest organic-result list a search returns
MaxTime == 31           \* last day the clock reaches (day 0: first cache write)
MaxCompanies == 2       \* longest list of company rows of one run
MaxCollects == 3        \* most collect_search_query calls between two clears

\* ------------------------------------------------------ program constants
TopFour == 3 + 1        \* a slice one longer
TopK == 3               \* [:3] slice of the result list
MinContentLen == 150    \* main.py: len(content) < 150 is rejected
ScrapeLimit == 7000     \* main.py: article.text[:7000]
OldMinContentLen == 50  \* old code: len(txt) > 50 is required
OldScrapeLimit == 5000  \* old code: text[:5000]
OldMinFactLen == 20     \* old code: len(fact) > 20 is required
CACHE_EXPIRY_DAYS == 30 \* old code: CACHE_EXPIRY_DAYS
RetryAttempts == 3      \* old code: @retry(stop=stop_after_attempt(3))

\* ------------------------------------------------------------------ text
NoneText == <<"None">>

TokLen(tok) ==
  CASE tok = "W10" -> 10
    [] tok = "AI_REFUSAL" -> 10
    [] tok = "Error:" -> 6
    [] tok = "NO:" -> 3
    [] tok = "NO" -> 2
    [] tok = "It" -> 2
    [] OTHER -> 1

RECURSIVE StrLen(_)
StrLen(t) == IF t = <<>> THEN 0 ELSE TokLen(Head(t)) + StrLen(Tail(t))

\* Python truthiness of an Optional[str]
Truthy(t) == t # NoneText /\ t # <<>>

Contains(t, tok) == \E k \in 1..Len(t) : t[k] = tok

StartsWith(t, tok) == Len(t) > 0 /\ t[1] = tok

RECURSIVE Remove(_, _)
Remove(t, toks) ==
  IF t = <<>> THEN <<>>
  ELSE IF Head(t) \in toks THEN Remove(Tail(t), toks)
       ELSE <<Head(t)>> \o Remove(Tail(t), toks)

RECURSIVE LStrip(_)
LStrip(t) == IF t # <<>> /\ Head(t) = "SP" THEN LStrip(Tail(t)) ELSE t

RECURSIVE RStrip(_)
RStrip(t) ==
  IF t # <<>> /\ t[Len(t)] = "SP" THEN RStrip(SubSeq(t, 1, Len(t) - 1)) ELSE t

Strip(t) == RStrip(LStrip(t))

Min(a, b) == IF a < b THEN a ELSE b

\* ------------------------------------------------------------------ URLs
\* A URL is scheme + optional "www." + host + optional "v" query parameter;
\* s and c say which search result (strategy s, rank c) it came from.
NoneUrl == [kind |-> "none", scheme |-> "", www |-> FALSE, host |-> "",
            vid |-> FALSE, s |-> 0, c |-> 0]

EmptyUrl == [kind |-> "empty", scheme |-> "", www |-> FALSE, host |-> "",
             vid |-> FALSE, s |-> 0, c |-> 0]

TruthyUrl(u) == u.kind = "url"

MkUrl(scheme, www, host, vid, s, c) ==
  [kind |-> "url", scheme |-> scheme, www |-> www, host |-> host,
   vid |-> vid, s |-> s, c |-> c]

\* The 'Website URL' cell of a company row
Websites ==
  { EmptyUrl,
    MkUrl("", FALSE, "Acme.com", FALSE, 0, 0),
    MkUrl("https://", TRUE, "Acme.com", FALSE, 0, 0) }

company_name == "Acme"

\* The 'url' field of organic result c of strategy s (absent: NoneUrl)
ResultUrls(s, c) ==
  { NoneUrl,
    MkUrl("https://", TRUE, "example.com", FALSE, s, c),
    MkUrl("https://", TRUE, "youtube.com", TRUE, s, c),
    MkUrl("", FALSE, "example.com", FALSE, s, c) }

Lower(host) == IF host = "Acme.com" THEN "acme.com" ELSE host

\* main.py extract_domain: '' unless the URL matches https?://(www.)?host
extract_domain(u) ==
  IF ~TruthyUrl(u) THEN ""
  ELSE IF u.scheme \in {"http://", "https://"} /\ u.host # ""
       THEN Lower(u.host) ELSE ""

\* old code: tldextract.extract(url) and f"{ext.domain}.{ext.suffix}"
tld_domain(u) == IF u.host = "" THEN "." ELSE Lower(u.host)

\* urlparse(url).hostname: None when the URL has no scheme
hostname(u) == IF u.scheme = "" THEN "None" ELSE u.host

\* main.py get_video_id: "raise" | "None" | "id"
get_video_id(u) ==
  IF hostname(u) = "None" THEN "raise"
  ELSE IF hostname(u) = "youtube.com" THEN (IF u.vid THEN "id" ELSE "None")
  ELSE IF hostname(u) = "youtu.be" THEN "id"
  ELSE "None"

\* ------------------------------------------------------------ strategies
Q_site == <<"site:", "{domain}", "SP", "about">>
Q_news == <<"{company}", "SP", "news">>

RequiresDomain(q) == Contains(q, "{domain}")

\* str.format(company=..., domain=...)
Format(q, company, dom) ==
  [k \in 1..Len(q) |->
     IF q[k] = "{domain}" THEN dom
     ELSE IF q[k] = "{company}" THEN company ELSE q[k]]

\* rows of the Research sheet as main.py reads them (get_all_records)
StrategiesMain ==
  [Query : {<<>>, Q_site, Q_news}, Prompt : {<<>>, <<"W10">>}]

\* rows kept by read_research_strategies (both cells non-empty)
StrategiesOld == {st \in StrategiesMain : st.Query # <<>> /\ st.Prompt # <<>>}

NoStrategy == [Query |-> <<>>, Prompt |-> <<>>]

\* ------------------------------------------------------ completion model
RawTexts ==
  { <<>>,
    <<"NO">>,
    <<"NO:", "SP", "W10">>,
    <<"W10", "W10">>,
    <<"Q", "W10", "W10", "C1", "Q", "SP">>,
    <<"It", "SP", "W10", "W10">>,
    <<"Error:", "SP", "W10">>,
    <<"AI_REFUSAL">> }

ApiResponses ==
  [kind : {"text"}, text : RawTexts]
    \cup [kind : {"nochoices", "ratelimit", "apierror", "exception"},
          text : {<<>>}]

ErrorText == <<"Error:", "SP", "W10">>

\* services/ai_assistant_service.py AIAssistantService.get_completion
get_completion(r) ==
  IF r.kind = "text"
  THEN LET generated_text == Strip(r.text)
       IN IF StartsWith(generated_text, "NO:")
          THEN <<"AI_REFUSAL", "SP", "(">> \o generated_text \o <<")">>
          ELSE Strip(Remove(generated_text, {"Q"}))
  ELSE ErrorText

\* old code summarize_with_gpt35: None on any exception or vague opener
summarize_with_gpt35(r) ==
  IF r.kind = "text"
  THEN LET fact == Remove(Strip(r.text), {"Q", "SQ"})
       IN IF StartsWith(fact, "It") THEN NoneText ELSE fact
  ELSE NoneText

template == <<"T", "SP", "W10">>

\* old code generate_message_with_gpt4: the template on any exception
generate_message_with_gpt4(r) ==
  IF r.kind = "text" THEN Strip(r.text) ELSE template

\* get_completion's refusal marker, "AI_REFUSAL (...)"
IsRefusalMarker(t) == StartsWith(t, "AI_REFUSAL")

\* get_completion's error strings, "Error: ..."
IsErrorMarker(t) == Contains(t, "Error:")

\* main.py line 121 / 149: the response is taken as a result
Accepted(summary) ==
  ~Contains(summary, "Error:") /\ summary # <<"AI_REFUSAL">>

\* --------------------------------------------------------------- fetchers
NoneContent == -1
PageLens == {0, 50, 51, 149, 150, 7001}
FetchResponses == {NoneContent} \cup PageLens

\* main.py scrape_page_content / get_youtube_transcript: text[:7000] or None
scrape_page_content(raw) == IF raw = NoneContent THEN NoneContent ELSE Min(raw, ScrapeLimit)

\* old code scrape_page: text[:5000] or None
scrape_page(raw) == IF raw = NoneContent THEN NoneContent ELSE Min(raw, OldScrapeLimit)

SkipForDomainNever(dom) == FALSE

\* main.py line 85: if not domain: continue
SkipForDomain(dom) == dom = ""

ContentRejectedLe(content) ==
  content = NoneContent \/ content = 0 \/ content <= MinContentLen

\* main.py line 110: not content or len(content) < 150
ContentRejected(content) ==
  content = NoneContent \/ content = 0 \/ content < MinContentLen

ResultSourceWebsite(source, website_url) == website_url

\* old code line 364: source or company.website_url
ResultSource(source, website_url) ==
  IF TruthyUrl(source) THEN source ELSE website_url

\* old code line 343: txt and len(txt) > 50
OldContentUsable(txt) ==
  txt # NoneContent /\ txt # 0 /\ txt > OldMinContentLen

\* search provider: [pages, organic] = number of result pages returned and
\* number of organicResults on the first page
SearchResponses == [pages : {0, 1}, organic : 0..MaxResults]

\* ----------------------------------------------------------------- state
\* ------------------------------------------------------ old code: the cache
\* Time is counted in days.  A cache file is absent, holds the JSON object
\* that cache_result wrote (kind "json"), or holds something else: nothing
\* ("empty": opened for writing, not written yet), a record followed by the
\* tail of a longer one ("garbled"), other text that is not JSON
\* ("invalid"), a JSON object without one of the four fields ("nofield") or
\* with a timestamp that is not ISO ("badtime").
Names == {company_name, "Beta"}

\* get_cache_key: md5 hex digest of the name (distinct names, distinct
\* digests)
get_cache_key(name) == <<"md5", name>>

Keys == {get_cache_key(nm) : nm \in Names}

\* a timestamp that is not the time of the write
isoformat_epoch(t) == <<"iso", 0>>

\* datetime.isoformat / datetime.fromisoformat
isoformat(t) == <<"iso", t>>

fromisoformat(str) == str[2]

NoFile == [kind |-> "absent", fact |-> <<>>, source_url |-> NoneUrl,
           confidence |-> FALSE, timestamp |-> <<>>]

\* the dataclass ResearchResult; NoneResult is Python's None in its place
ResearchResult(fact, source, confidence) ==
  [kind |-> "ResearchResult", fact |-> fact, source_url |-> source,
   confidence |-> confidence]

NoneResult == [kind |-> "None", fact |-> NoneText, source_url |-> NoneUrl,
               confidence |-> FALSE]

EmptyFile == [NoFile EXCEPT !.kind = "empty"]

UnreadableFiles ==
  {[NoFile EXCEPT !.kind = k] : k \in {"invalid", "nofield", "badtime"}}

\* cache_result, line 436: open(cache_file, 'w') creates or truncates
cache_open(files, name) == [files EXCEPT ![get_cache_key(name)] = EmptyFile]

\* length of a file, as far as it matters when it is written over without
\* truncation: that of the longest record in it
FileLen(file) ==
  IF file.kind \in {"json", "garbled"} THEN StrLen(file.fact) ELSE 0

\* cache_result, lines 437-442: json.dump and close write the record at
\* offset 0 of the open file; what a longer content had beyond the record
\* stays in the file
cache_dump(files, name, res, t) ==
  LET old == files[get_cache_key(name)]
      new == [kind |-> "json", fact |-> res.fact,
              source_url |-> res.source_url, confidence |-> res.confidence,
              timestamp |-> isoformat(t)]
  IN [files EXCEPT ![get_cache_key(name)] =
        IF FileLen(old) > FileLen(new)
        THEN [old EXCEPT !.kind = "garbled"]
        ELSE new]

\* cache_result with a dropped field
cache_result_no_source(files, name, res, t) ==
  [files EXCEPT ![get_cache_key(name)] =
     [kind |-> "json", fact |-> res.fact, source_url |-> EmptyUrl,
      confidence |-> res.confidence, timestamp |-> isoformat(t)]]

\* cache_result, lines 430-444: the files after a write at time t
cache_result(files, name, res, t) ==
  cache_dump(cache_open(files, name), name, res, t)

\* get_cached_result with an inclusive window
get_cached_result_le(files, name, t) ==
  LET data == files[get_cache_key(name)]
  IN IF data.kind = "json"
        /\ t - fromisoformat(data.timestamp) <= CACHE_EXPIRY_DAYS
     THEN ResearchResult(data.fact, data.source_url, data.confidence)
     ELSE NoneResult

\* get_cached_result, lines 446-467: the value returned at time t.  For a
\* file of another kind than "json", json.load, data[...] or fromisoformat
\* raises and the except clause (lines 464-465) leads to return None.
get_cached_result(files, name, t) ==
  LET data == files[get_cache_key(name)]
  IN IF data.kind = "json"
        /\ t - fromisoformat(data.timestamp) < CACHE_EXPIRY_DAYS
     THEN ResearchResult(data.fact, data.source_url, data.confidence)
     ELSE NoneResult

\* get_cached_result that drops the expired file it finds
files_after_get_purging(files, name, t) ==
  LET data == files[get_cache_key(name)]
  IN IF data.kind = "json"
        /\ ~(t - fromisoformat(data.timestamp) < CACHE_EXPIRY_DAYS)
     THEN [files EXCEPT ![get_cache_key(name)] = NoFile]
     ELSE files

\* get_cached_result, lines 446-467, opens the file for reading only: the
\* files after the call
files_after_get(files, name, t) == files

\* what a lookup met: no file, a file it could not read, an expired record
\* or a record it returned
LookupFound(file, res) ==
  IF file.kind = "absent" THEN "miss"
  ELSE IF file.kind # "json" THEN "unreadable"
  ELSE IF res = NoneResult THEN "expired"
  ELSE "hit"

\* cache_result without its except clause
WriteErrorPropagates == FALSE

\* cache_result, lines 443-444: except Exception, print
WriteErrorCaught == TRUE

\* what can happen to the write of cache_result: open() raises and the file
\* stays as it was, or json.dump raises and the file stays truncated
WriteOutcomes(mode) ==
  IF mode = "ok" THEN {"written"}
  ELSE {"written", "open_raises", "dump_raises"}

\* old main(), line 517, always true
ShouldCacheAlways(res) == TRUE

\* old main(), line 517: if result
ShouldCache(res) == res # NoneResult

\* outcomes a caller may hand to cache_result
FactA == <<"W10", "W10", "W10">>
FactB == <<"W10", "W10", "SP", "W10">>

Outcomes ==
  { ResearchResult(FactA, MkUrl("https://", TRUE, "example.com", FALSE, 1, 1),
                   TRUE),
    ResearchResult(FactB, MkUrl("https://", TRUE, "Acme.com", FALSE, 0, 0),
                   TRUE),
    ResearchResult(<<>>, EmptyUrl, FALSE) }

VARIABLES
  impl,                \* "main" or "old": which pipeline runs
  website,             \* the company's 'Website URL'
  numStrategies,       \* length of the strategy list
  pc,                  \* position in the pipeline
  si,                  \* index of the strategy last taken from the list
  strategy,            \* that strategy
  domain,              \* domain computed for it ("" before the first)
  query,               \* query handed to the search provider for it
  n,                   \* number of organic results of its search
  ci,                  \* rank of the result last taken from results[:3]
  url,                 \* main: url of the result being summarized
  content,             \* main: length of the content last fetched for
                       \* result ci; old: of the content chosen (line 344)
  txt,                 \* old: length of the text last scraped for result ci
  research_summary,    \* main: research_summary; old: the returned fact
  source_url,          \* main: source_url; old: source
  personalized_message,
  status,
  result,              \* the record returned / written for the company
  searchCnt,           \* searchCnt[s]: search-provider calls for strategy s
  fetchCnt,            \* fetchCnt[c]: fetches of result c of strategy si
  summCnt,             \* summCnt[c]: summarizer calls for result c of si
  persCnt,             \* personalizer calls
  producer,            \* <<s, c>> whose summarizer answer is research_summary
  abandoned,           \* first result within [:3] that a loop exit left
                       \* untried (<<0, 0>>: none so far)
  persAnswer,          \* what the personalizer returned: "ok", "error",
                       \* "refusal" ("none": not called)
  confidence,          \* old: result.confidence
  cache,               \* old: cache[k]: content of the cache file of key k
  now,                 \* old: datetime.now(), in days
  cached,              \* old: value returned by the last get_cached_result
  lookup,              \* what that call found: name and "miss" (no file),
                       \* "expired" or "hit"
  putCnt,              \* cache_result calls made by the pipeline
  lastPut,             \* lastPut[name]: outcome and time of the last
                       \* cache_result for the name
  companies,           \* the 'Website URL' cells of the company rows
  idx,                 \* row being processed (1-based)
  outputs,             \* records written to the Output sheet, in order
  sleeps,              \* time.sleep calls of the main loop
  io,                  \* "ok": the cache directory can be written;
                       \* "faulty": a write may fail
  rpc,                 \* concurrent pipelines: position of each in old main()
  rgot,                \* concurrent pipelines: what get_cached_result returned
  rres,                \* concurrent pipelines: what research_company returned
  fullPuts,            \* outcomes whose json.dump completed
  search_queries,      \* SearchService: the queued query strings
  query_map,           \* SearchService: query id -> entry
  processed_results,   \* SearchService: query id -> processed result
  svcOp,               \* SearchService: the last call made on it
  svcRet,              \* SearchService: what execute_all_queries returned
  collects,            \* collect_search_query calls since the last clear
  provider             \* the Apify call of the last execute_all_queries

vars == <<impl, website, numStrategies, pc, si, strategy, domain, query, n,
          ci, url, content, txt, research_summary, source_url,
          personalized_message, status, result, searchCnt, fetchCnt, summCnt,
          persCnt, producer, abandoned, persAnswer, confidence, cache, now,
          cached, lookup, putCnt, lastPut, companies, idx, outputs, sleeps,
          io, rpc, rgot, rres, fullPuts, search_queries, query_map,
          processed_results, svcOp, svcRet, collects, provider>>

cacheVars == <<cache, now, cached, lookup, putCnt, lastPut>>

runVars == <<companies, idx, outputs, sleeps>>

svcVars == <<search_queries, query_map, processed_results, svcOp, svcRet,
             collects, provider>>

auxVars == <<io, rpc, rgot, rres, fullPuts, svcVars>>

\* ------------------------------------------------------- SearchService data
QueryIds == {"news", "jobs"}

QueryTexts == {"acme news", "acme hiring"}

\* Python list indexing, from 0
At(list, i) == list[i + 1]

\* {} as a dict from query ids
EmptyMap == [id \in {} |-> 0]

\* a dict with one more item, or one item replaced: d[key] = value
DictSet(d, key, value) ==
  [id \in DOMAIN d \cup {key} |-> IF id = key THEN value ELSE d[id]]

\* the return values of execute_all_queries: {} or the list of items;
\* "raised" is an exception that leaves the callee
EmptyDict == [kind |-> "dict", items |-> <<>>]

ItemList(items) == [kind |-> "list", items |-> items]

Raised == [kind |-> "raised", items |-> <<>>]

NotReturned == [kind |-> "unset", items |-> <<>>]

NoOp == [op |-> "none", id |-> "", query |-> ""]

NotCalled == [called |-> FALSE, queries |-> <<>>, answer |-> ""]

\* how the Apify side can answer: the client cannot be built (__init__
\* reads the Flask configuration), the actor call raises, the dataset is
\* empty, or the dataset has one item per query
ProviderAnswers == {"no_client", "raises", "no_items", "items"}

\* ApifyService.run_and_parse, lines 16-26
run_and_parse(queries, answer) ==
  IF answer = "items"
  THEN [i \in 1..Len(queries) |-> [searchQuery |-> queries[i]]]
  ELSE <<>>

\* SearchService._perform_google_search, lines 71-93
perform_google_search(queries, answer) ==
  IF answer = "no_client" THEN Raised
  ELSE ItemList(run_and_parse(queries, answer))

\* collect_search_query with the index taken after the append
QueryIndexAfterAppend(queue) == Len(queue) + 1

\* collect_search_query, line 38: query_index = len(self.search_queries)
QueryIndex(queue) == Len(queue)

\* execute_all_queries without its first test
QueueEmptyNever(queue) == FALSE

\* execute_all_queries, line 48: not self.search_queries
QueueEmpty(queue) == queue = <<>>

\* SearchService.__init__, lines 12-15, and nothing called yet
NoService ==
  /\ search_queries = <<>>
  /\ query_map = EmptyMap
  /\ processed_results = EmptyMap
  /\ svcOp = NoOp
  /\ svcRet = NotReturned
  /\ collects = 0
  /\ provider = NotCalled

\* the pipelines that run at the same time on one cache directory
Procs == {1, 2}

\* this process is the only pipeline
Alone ==
  /\ rpc = [p \in Procs |-> "off"]
  /\ rgot = [p \in Procs |-> NoneResult]
  /\ rres = [p \in Procs |-> NoneResult]
  /\ fullPuts = {}

pipelineVars == <<impl, website, numStrategies, pc, si, strategy, domain,
                  query, n, ci, url, content, txt, research_summary,
                  source_url, personalized_message, status, result, searchCnt,
                  fetchCnt, summCnt, persCnt, producer, abandoned, persAnswer,
                  confidence>>

NoCalls == [c \in 1..MaxResults |-> 0]

NoResult == [status |-> "none"]

\* leaving strategy s after result c: the first result that results[:3]
\* still holds, unless an earlier exit already left one
Untried(prev, s, c, cnt) ==
  IF prev # <<0, 0>> THEN prev
  ELSE IF c + 1 <= Min(TopK, cnt) THEN <<s, c + 1>> ELSE <<0, 0>>

NoLookup == [name |-> "", found |-> "none"]

NoPut == [outcome |-> NoneResult, time |-> -1]

\* a company row about to be processed
StartOfRow ==
  /\ pc = "row"
  /\ si = 0
  /\ strategy = NoStrategy
  /\ domain = ""
  /\ query = <<>>
  /\ n = 0
  /\ ci = 0
  /\ url = NoneUrl
  /\ content = NoneContent
  /\ txt = NoneContent
  /\ research_summary = NoneText
  /\ source_url = NoneUrl
  /\ personalized_message = <<>>
  /\ status = "none"
  /\ result = NoResult
  /\ searchCnt = [s \in 1..MaxStrategies |-> 0]
  /\ fetchCnt = NoCalls
  /\ summCnt = NoCalls
  /\ persCnt = 0
  /\ producer = <<0, 0>>
  /\ abandoned = <<0, 0>>
  /\ persAnswer = "none"
  /\ confidence = FALSE
  /\ cached = NoneResult
  /\ lookup = NoLookup
  /\ putCnt = 0

\* a sheet with one company row
SingleCompany ==
  /\ companies = <<website>>
  /\ idx = 1
  /\ outputs = <<>>
  /\ sleeps = 0

\* the cache directory of a first run: no file
ColdCache ==
  /\ io = "ok"
  /\ Alone
  /\ NoService
  /\ now = 0
  /\ cache = [k \in Keys |-> NoFile]
  /\ lastPut = [nm \in Names |-> NoPut]

\* the cache directory left by an earlier run: the company's file is absent,
\* or was written by cache_result some days ago
WarmAges == {CACHE_EXPIRY_DAYS - 1, MaxTime}

WarmCache ==
  /\ io = "ok"
  /\ Alone
  /\ NoService
  /\ now = MaxTime
  /\ \/ /\ cache = [k \in Keys |-> NoFile]
        /\ lastPut = [nm \in Names |-> NoPut]
     \/ \E o \in Outcomes, age \in WarmAges :
        /\ o.fact = FactA
        /\ cache = cache_result([k \in Keys |-> NoFile], company_name, o,
                                now - age)
        /\ lastPut = [nm \in Names |->
                        IF nm = company_name
                        THEN [outcome |-> o, time |-> now - age]
                        ELSE NoPut]

Init ==
  /\ impl \in {"main", "old"}
  /\ website \in Websites
  /\ numStrategies \in 0..MaxStrategies
  /\ StartOfRow
  /\ SingleCompany
  /\ ColdCache

\* main.py main(), line 219, and old code read_companies, line 124: a row
\* without a website (or name) never reaches the pipeline.
row_filter ==
  /\ pc = "row"
  /\ pc' = IF ~TruthyUrl(website) THEN "skipped"
           ELSE IF impl = "old" THEN "cache_get" ELSE "strategy"
  /\ UNCHANGED <<impl, website, numStrategies, si, strategy, domain, query, n,
                 ci, url, content, txt, research_summary, source_url,
                 personalized_message, status, result, searchCnt, fetchCnt,
                 summCnt, persCnt, producer, abandoned>>
  /\ UNCHANGED <<confidence, cacheVars>>
  /\ UNCHANGED persAnswer
  /\ UNCHANGED <<runVars, auxVars>>

\* old main(), line 511, never taking the cached result
UseCachedNever(c) == FALSE

\* old main(), line 511: if cached
UseCached(c) == c # NoneResult

\* old main(), lines 508-513: look the company up in the cache
old_cache_get ==
  /\ impl = "old" /\ pc = "cache_get"
  /\ cached' = get_cached_result(cache, company_name, now)
  /\ cache' = files_after_get(cache, company_name, now)
  /\ lookup' = [name |-> company_name,
                found |-> LookupFound(cache[get_cache_key(company_name)],
                                      cached')]
  /\ IF UseCached(cached')
     THEN /\ research_summary' = cached'.fact
          /\ source_url' = cached'.source_url
          /\ confidence' = cached'.confidence
          /\ pc' = "old_main"
     ELSE /\ pc' = "strategy"
          /\ UNCHANGED <<research_summary, source_url, confidence>>
  /\ UNCHANGED <<impl, website, numStrategies, si, strategy, domain, query, n,
                 ci, url, content, txt, personalized_message, status, result,
                 searchCnt, fetchCnt, summCnt, persCnt, producer, abandoned,
                 now, putCnt, lastPut>>
  /\ UNCHANGED persAnswer
  /\ UNCHANGED <<runVars, auxVars>>

\* a result handed back without its source
ResolvedWithoutSource ==
  IF research_summary = NoneText THEN NoneResult
  ELSE ResearchResult(research_summary, EmptyUrl, confidence)

\* the ResearchResult (or None) that research_company handed back
Resolved ==
  IF research_summary = NoneText THEN NoneResult
  ELSE ResearchResult(research_summary, source_url, confidence)

\* old main(), lines 516-518: cache the fresh result
old_cache_put ==
  /\ impl = "old" /\ pc = "cache_put"
  /\ IF ShouldCache(Resolved)
     THEN \E w \in WriteOutcomes(io) :
          /\ putCnt' = putCnt + 1
          /\ cache' = IF w = "written"
                      THEN cache_result(cache, company_name, Resolved, now)
                      ELSE IF w = "dump_raises"
                      THEN cache_open(cache, company_name)
                      ELSE cache
          /\ lastPut' = IF w = "written"
                        THEN [lastPut EXCEPT ![company_name] =
                                [outcome |-> Resolved, time |-> now]]
                        ELSE lastPut
          /\ pc' = IF w = "written" \/ WriteErrorCaught
                   THEN "old_main" ELSE "raised"
     ELSE /\ pc' = "old_main"
          /\ UNCHANGED <<cache, putCnt, lastPut>>
  /\ UNCHANGED <<impl, website, numStrategies, si, strategy, domain, query, n,
                 ci, url, content, txt, research_summary, source_url,
                 personalized_message, status, result, searchCnt, fetchCnt,
                 summCnt, persCnt, producer, abandoned, confidence, now,
                 cached, lookup>>
  /\ UNCHANGED persAnswer
  /\ UNCHANGED <<runVars, auxVars>>

\* ------------------------------------------------- main.py process_company
\* the personalization step taken for every company
ShouldPersonalizeAlways(fact) == TRUE

\* main.py line 133: if research_summary; old main() line 521: if result and
\* result.fact
ShouldPersonalize(fact) == Truthy(fact)

\* line 78 without the break
StopOnSuccessNever(summary) == FALSE

\* line 78: if research_summary: break
StopOnSuccess(summary) == Truthy(summary)

\* lines 77-92: loop head, strategy validation, domain, search
pc_strategy ==
  /\ impl = "main" /\ pc = "strategy"
  /\ IF StopOnSuccess(research_summary) \/ si = numStrategies
     THEN /\ pc' = "personalize"
          /\ UNCHANGED <<si, strategy, domain, query, n, ci, content,
                         searchCnt, fetchCnt, summCnt>>
     ELSE \E st \in StrategiesMain :
          /\ si' = si + 1
          /\ strategy' = st
          /\ ci' = 0
          /\ content' = NoneContent
          /\ fetchCnt' = NoCalls
          /\ summCnt' = NoCalls
          /\ IF st.Query = <<>> \/ st.Prompt = <<>>
             THEN /\ pc' = "strategy"
                  /\ n' = 0
                  /\ UNCHANGED <<domain, query, searchCnt>>
             ELSE /\ domain' = extract_domain(website)
                  /\ IF SkipForDomain(domain')
                     THEN /\ pc' = "strategy"
                          /\ n' = 0
                          /\ UNCHANGED <<query, searchCnt>>
                     ELSE /\ query' = Format(st.Query, company_name, domain')
                          /\ searchCnt' = [searchCnt EXCEPT ![si + 1] = @ + 1]
                          /\ \E search_results \in SearchResponses :
                             IF search_results.pages = 0
                                  \/ search_results.organic = 0
                             THEN pc' = "strategy" /\ n' = 0
                             ELSE pc' = "candidate"
                                  /\ n' = search_results.organic
  /\ UNCHANGED <<impl, website, numStrategies, url, txt, research_summary,
                 source_url, personalized_message, status, result, persCnt,
                 producer, abandoned>>
  /\ UNCHANGED <<confidence, cacheVars>>
  /\ UNCHANGED persAnswer
  /\ UNCHANGED <<runVars, auxVars>>

\* lines 94-112: next result of organicResults[:3], video id, fetch, length
pc_candidate ==
  /\ impl = "main" /\ pc = "candidate"
  /\ IF ci >= Min(TopK, n)
     THEN /\ pc' = "strategy"
          /\ UNCHANGED <<ci, url, content, fetchCnt, abandoned>>
     ELSE IF Truthy(research_summary)
     THEN /\ pc' = "strategy"
          /\ abandoned' = Untried(abandoned, si, ci, n)
          /\ UNCHANGED <<ci, url, content, fetchCnt>>
     ELSE \E u \in ResultUrls(si, ci + 1) :
          /\ ci' = ci + 1
          /\ UNCHANGED abandoned
          /\ IF ~TruthyUrl(u)
             THEN /\ pc' = "candidate"
                  /\ url' = NoneUrl
                  /\ content' = NoneContent
                  /\ UNCHANGED fetchCnt
             ELSE IF get_video_id(u) = "raise"
             THEN /\ pc' = "raised"
                  /\ url' = u
                  /\ content' = NoneContent
                  /\ UNCHANGED fetchCnt
             ELSE \E raw \in FetchResponses :
                  /\ content' = scrape_page_content(raw)
                  /\ fetchCnt' = [fetchCnt EXCEPT ![ci + 1] = @ + 1]
                  /\ IF ContentRejected(content')
                     THEN pc' = "candidate" /\ url' = NoneUrl
                     ELSE pc' = "summarize" /\ url' = u
  /\ UNCHANGED <<impl, website, numStrategies, si, strategy, domain, query, n,
                 txt, research_summary, source_url, personalized_message,
                 status, result, searchCnt, summCnt, persCnt, producer>>
  /\ UNCHANGED <<confidence, cacheVars>>
  /\ UNCHANGED persAnswer
  /\ UNCHANGED <<runVars, auxVars>>

\* lines 115-127: summarizer call and acceptance test
pc_summarize ==
  /\ impl = "main" /\ pc = "summarize"
  /\ \E r \in ApiResponses :
     LET summary == get_completion(r)
     IN /\ summCnt' = [summCnt EXCEPT ![ci] = @ + 1]
        /\ IF Accepted(summary)
           THEN /\ research_summary' = summary
                /\ source_url' = url
                /\ producer' = <<si, ci>>
                /\ abandoned' = Untried(abandoned, si, ci, n)
                /\ pc' = "strategy"
           ELSE /\ pc' = "candidate"
                /\ UNCHANGED <<research_summary, source_url, producer,
                               abandoned>>
  /\ url' = NoneUrl
  /\ UNCHANGED <<impl, website, numStrategies, si, strategy, domain, query, n,
                 ci, content, txt, personalized_message, status, result,
                 searchCnt, fetchCnt, persCnt>>
  /\ UNCHANGED <<confidence, cacheVars>>
  /\ UNCHANGED persAnswer
  /\ UNCHANGED <<runVars, auxVars>>

\* lines 129-172: personalization step and the returned dictionary
pc_personalize ==
  /\ impl = "main" /\ pc = "personalize"
  /\ IF ShouldPersonalize(research_summary)
     THEN \E r \in ApiResponses :
          LET message == get_completion(r)
          IN /\ persCnt' = persCnt + 1
             /\ persAnswer' = IF IsRefusalMarker(message) THEN "refusal"
                              ELSE IF IsErrorMarker(message) THEN "error"
                              ELSE "ok"
             /\ IF Accepted(message)
                THEN status' = "Personalized"
                     /\ personalized_message' = message
                ELSE status' = "PersonalizationFailed"
                     /\ personalized_message' = <<>>
     ELSE /\ status' = "NoSourceSummarized"
          /\ personalized_message' = <<>>
          /\ UNCHANGED <<persCnt, persAnswer>>
  /\ result' = [research_summary |->
                  IF Truthy(research_summary) THEN research_summary ELSE <<>>,
                source_url |->
                  IF TruthyUrl(source_url) THEN source_url ELSE EmptyUrl,
                personalized_message |-> personalized_message',
                status |-> status']
  /\ pc' = "done"
  /\ UNCHANGED <<impl, website, numStrategies, si, strategy, domain, query, n,
                 ci, url, content, txt, research_summary, source_url,
                 searchCnt, fetchCnt, summCnt, producer, abandoned>>
  /\ UNCHANGED <<confidence, cacheVars>>
  /\ UNCHANGED <<runVars, auxVars>>

\* ------------------------- old code research_company and main(), per company
\* lines 323-338 (349): next strategy, domain, query, search_web_apify under
\* @retry; lines 368-369: return None when the list is exhausted
rc_strategy ==
  /\ impl = "old" /\ pc = "strategy"
  /\ IF si = numStrategies
     THEN /\ pc' = "cache_put"
          /\ research_summary' = NoneText
          /\ UNCHANGED <<si, strategy, domain, query, n, ci, content, txt,
                         source_url, searchCnt, fetchCnt, summCnt>>
     ELSE \E st \in StrategiesOld :
          /\ si' = si + 1
          /\ strategy' = st
          /\ domain' = tld_domain(website)
          /\ query' = Format(st.Query, company_name, domain')
          /\ content' = NoneContent
          /\ txt' = NoneContent
          /\ source_url' = NoneUrl
          /\ ci' = 0
          /\ fetchCnt' = NoCalls
          /\ summCnt' = NoCalls
          /\ UNCHANGED research_summary
          /\ \E failures \in 0..RetryAttempts :
             IF failures = RetryAttempts
             THEN /\ searchCnt' = [searchCnt EXCEPT ![si + 1] = RetryAttempts]
                  /\ n' = 0
                  /\ pc' = "raised"
             ELSE /\ searchCnt' = [searchCnt EXCEPT ![si + 1] = failures + 1]
                  /\ n' \in 0..MaxResults
                  /\ pc' = "candidate"
  /\ UNCHANGED <<impl, website, numStrategies, url, personalized_message,
                 status, result, persCnt, producer, abandoned>>
  /\ UNCHANGED <<confidence, cacheVars>>
  /\ UNCHANGED persAnswer
  /\ UNCHANGED <<runVars, auxVars>>

\* lines 339-345 (350-356): first result of results[:3] with usable text
rc_candidate ==
  /\ impl = "old" /\ pc = "candidate"
  /\ IF ci >= Min(TopK, n)
     THEN /\ pc' = "strategy"
          /\ UNCHANGED <<ci, url, content, txt, source_url, fetchCnt,
                         abandoned>>
     ELSE \E u \in ResultUrls(si, ci + 1) :
          /\ ci' = ci + 1
          /\ UNCHANGED url
          /\ IF ~TruthyUrl(u)
             THEN /\ pc' = "candidate"
                  /\ txt' = NoneContent
                  /\ UNCHANGED <<content, source_url, fetchCnt, abandoned>>
             ELSE \E raw \in FetchResponses :
                  /\ txt' = scrape_page(raw)
                  /\ fetchCnt' = [fetchCnt EXCEPT ![ci + 1] = @ + 1]
                  /\ IF OldContentUsable(txt')
                     THEN /\ content' = txt'
                          /\ source_url' = u
                          /\ abandoned' = Untried(abandoned, si, ci + 1, n)
                          /\ pc' = "summarize"
                     ELSE /\ pc' = "candidate"
                          /\ UNCHANGED <<content, source_url, abandoned>>
  /\ UNCHANGED <<impl, website, numStrategies, si, strategy, domain, query, n,
                 research_summary, personalized_message, status, result,
                 searchCnt, summCnt, persCnt, producer>>
  /\ UNCHANGED <<confidence, cacheVars>>
  /\ UNCHANGED persAnswer
  /\ UNCHANGED <<runVars, auxVars>>

\* lines 359-366: summarize the chosen content, quality check, return
rc_summarize ==
  /\ impl = "old" /\ pc = "summarize"
  /\ \E r \in ApiResponses :
     LET fact == summarize_with_gpt35(r)
     IN /\ summCnt' = [summCnt EXCEPT ![ci] = @ + 1]
        /\ IF Truthy(fact) /\ StrLen(fact) > OldMinFactLen
           THEN /\ research_summary' = fact
                /\ source_url' = ResultSource(source_url, website)
                /\ producer' = <<si, ci>>
                /\ confidence' = TRUE
                /\ pc' = "cache_put"
           ELSE /\ pc' = "strategy"
                /\ UNCHANGED <<research_summary, source_url, producer,
                               confidence>>
  /\ UNCHANGED <<impl, website, numStrategies, si, strategy, domain, query, n,
                 ci, url, content, txt, personalized_message, status, result,
                 searchCnt, fetchCnt, persCnt, abandoned>>
  /\ UNCHANGED cacheVars
  /\ UNCHANGED persAnswer
  /\ UNCHANGED <<runVars, auxVars>>

\* main() lines 520-542: personalization, status and the output row
old_main ==
  /\ impl = "old" /\ pc = "old_main"
  /\ IF ShouldPersonalize(research_summary)
     THEN \E r \in ApiResponses :
          /\ personalized_message' = generate_message_with_gpt4(r)
          /\ persCnt' = persCnt + 1
          /\ persAnswer' = IF r.kind = "text" THEN "ok" ELSE "error"
          /\ status' = IF confidence THEN "Good" ELSE "Review"
          /\ result' = [fact |-> research_summary,
                        source_url |-> source_url,
                        confidence |-> confidence,
                        personalized_message |-> personalized_message',
                        status |-> status']
     ELSE /\ personalized_message' = template
          /\ status' = "NoFactFound"
          /\ result' = [fact |-> <<>>,
                        source_url |-> EmptyUrl,
                        confidence |-> FALSE,
                        personalized_message |-> template,
                        status |-> status']
          /\ UNCHANGED <<persCnt, persAnswer>>
  /\ pc' = "done"
  /\ UNCHANGED <<impl, website, numStrategies, si, strategy, domain, query, n,
                 ci, url, content, txt, research_summary, source_url,
                 searchCnt, fetchCnt, summCnt, producer, abandoned>>
  /\ UNCHANGED <<confidence, cacheVars>>
  /\ UNCHANGED <<runVars, auxVars>>

Next ==
  \/ row_filter
  \/ old_cache_get
  \/ old_cache_put
  \/ rc_strategy
  \/ rc_candidate
  \/ rc_summarize
  \/ old_main
  \/ pc_strategy
  \/ pc_candidate
  \/ pc_summarize
  \/ pc_personalize

Spec == Init /\ [][Next]_vars

\* ------------------------------------ old pipeline on a cache of earlier runs
OldInit ==
  /\ impl = "old"
  /\ website \in Websites
  /\ numStrategies \in 0..MaxStrategies
  /\ StartOfRow
  /\ SingleCompany
  /\ WarmCache

OldNext ==
  \/ row_filter
  \/ old_cache_get
  \/ rc_strategy
  \/ rc_candidate
  \/ rc_summarize
  \/ old_cache_put
  \/ old_main

SpecOld == OldInit /\ [][OldNext]_vars

\* ------------------------------------------ two old pipelines, one company
\* Each process runs the cache steps of old main() for the same company:
\* lookup, resolution on a miss, and the write, which is two steps, the
\* open that truncates the file and the dump that fills it.  Nothing in the
\* code orders the steps of one process against those of another.
raceFrame ==
  <<pipelineVars, runVars, io, now, cached, lookup, putCnt, lastPut, svcVars>>

\* the outcomes research_company can return for the company
FoundOutcomes == {o \in Outcomes : Truthy(o.fact) /\ o.confidence}

RaceInit ==
  /\ impl = "old"
  /\ website = MkUrl("https://", TRUE, "Acme.com", FALSE, 0, 0)
  /\ numStrategies = 0
  /\ StartOfRow
  /\ SingleCompany
  /\ io = "ok"
  /\ now = 0
  /\ cache = [k \in Keys |-> NoFile]
  /\ lastPut = [nm \in Names |-> NoPut]
  /\ NoService
  /\ rpc = [p \in Procs |-> "get"]
  /\ rgot = [p \in Procs |-> NoneResult]
  /\ rres = [p \in Procs |-> NoneResult]
  /\ fullPuts = {}

\* old main(), lines 508-514: cached = get_cached_result(company.name)
race_get(p) ==
  /\ rpc[p] = "get"
  /\ rgot' = [rgot EXCEPT ![p] = get_cached_result(cache, company_name, now)]
  /\ rpc' = [rpc EXCEPT ![p] = IF rgot'[p] # NoneResult THEN "done"
                                ELSE "resolve"]
  /\ cache' = files_after_get(cache, company_name, now)
  /\ UNCHANGED <<rres, fullPuts, raceFrame>>

\* old main(), lines 513-517: result = research_company(...); if result:
race_resolve(p) ==
  /\ rpc[p] = "resolve"
  /\ \E res \in FoundOutcomes \cup {NoneResult} :
       /\ rres' = [rres EXCEPT ![p] = res]
       /\ rpc' = [rpc EXCEPT ![p] = IF ShouldCache(res) THEN "open"
                                     ELSE "done"]
  /\ UNCHANGED <<cache, rgot, fullPuts, raceFrame>>

\* cache_result, line 436
race_open(p) ==
  /\ rpc[p] = "open"
  /\ cache' = cache_open(cache, company_name)
  /\ rpc' = [rpc EXCEPT ![p] = "dump"]
  /\ UNCHANGED <<rgot, rres, fullPuts, raceFrame>>

\* cache_result, lines 437-442
race_dump(p) ==
  /\ rpc[p] = "dump"
  /\ cache' = cache_dump(cache, company_name, rres[p], now)
  /\ fullPuts' = fullPuts \cup {rres[p]}
  /\ rpc' = [rpc EXCEPT ![p] = "done"]
  /\ UNCHANGED <<rgot, rres, raceFrame>>

\* the pipeline is started again for the same company
race_restart(p) ==
  /\ rpc[p] = "done"
  /\ rpc' = [rpc EXCEPT ![p] = "get"]
  /\ rgot' = [rgot EXCEPT ![p] = NoneResult]
  /\ rres' = [rres EXCEPT ![p] = NoneResult]
  /\ UNCHANGED <<cache, fullPuts, raceFrame>>

RaceNext ==
  \E p \in Procs :
    \/ race_get(p)
    \/ race_resolve(p)
    \/ race_open(p)
    \/ race_dump(p)
    \/ race_restart(p)

SpecRace == RaceInit /\ [][RaceNext]_vars

\* ------------------------------ old pipeline on a damaged cache directory
\* the company's cache file is absent or cannot be read, and a write may
\* fail; the strategy list has one strategy
FaultInit ==
  /\ impl = "old"
  /\ website \in Websites
  /\ numStrategies = 1
  /\ StartOfRow
  /\ SingleCompany
  /\ io = "faulty"
  /\ Alone
  /\ NoService
  /\ now = 0
  /\ \E file \in UnreadableFiles \cup {NoFile} :
       cache = [k \in Keys |->
                  IF k = get_cache_key(company_name) THEN file ELSE NoFile]
  /\ lastPut = [nm \in Names |-> NoPut]

SpecFault == FaultInit /\ [][OldNext]_vars

\* ------------------------------------------- a run over the company rows
\* the strategy list of a run is read once and serves every company; runs
\* are explored with a list of one strategy
RunInit ==
  /\ impl \in {"main", "old"}
  /\ companies \in UNION {[1..k -> Websites] : k \in 1..MaxCompanies}
  /\ idx = 1
  /\ website = companies[1]
  /\ numStrategies = 1
  /\ StartOfRow
  /\ ColdCache
  /\ outputs = <<>>
  /\ sleeps = 0

\* the loop takes the next row, or ends after the last one; the locals of
\* the loop body are as at the start of a row
NextCompany ==
  /\ IF idx < Len(companies)
     THEN /\ idx' = idx + 1
          /\ website' = companies[idx + 1]
          /\ pc' = "row"
     ELSE /\ pc' = "finished"
          /\ UNCHANGED <<idx, website>>
  /\ si' = 0
  /\ strategy' = NoStrategy
  /\ domain' = ""
  /\ query' = <<>>
  /\ n' = 0
  /\ ci' = 0
  /\ url' = NoneUrl
  /\ content' = NoneContent
  /\ txt' = NoneContent
  /\ research_summary' = NoneText
  /\ source_url' = NoneUrl
  /\ personalized_message' = <<>>
  /\ status' = "none"
  /\ result' = NoResult
  /\ searchCnt' = [s \in 1..MaxStrategies |-> 0]
  /\ fetchCnt' = NoCalls
  /\ summCnt' = NoCalls
  /\ persCnt' = 0
  /\ producer' = <<0, 0>>
  /\ abandoned' = <<0, 0>>
  /\ persAnswer' = "none"
  /\ confidence' = FALSE
  /\ cached' = NoneResult
  /\ lookup' = NoLookup
  /\ putCnt' = 0

\* main.py lines 219-221: continue; old code read_companies, lines 124-131:
\* the row is not in the list
skip_row ==
  /\ pc = "skipped"
  /\ NextCompany
  /\ UNCHANGED <<impl, numStrategies, companies, outputs, sleeps, cache, now,
                 lastPut>>
  /\ UNCHANGED auxVars

\* main.py lines 238-250: output_sheet.update at row i + 2; old main(),
\* lines 530-543: write_output_row at index i of the kept rows
write_output ==
  /\ pc = "done"
  /\ outputs' = Append(outputs,
                       [company |-> idx,
                        row |-> IF impl = "main" THEN idx
                                ELSE Len(outputs) + 1,
                        status |-> status])
  /\ pc' = "written"
  /\ UNCHANGED <<impl, website, numStrategies, si, strategy, domain, query, n,
                 ci, url, content, txt, research_summary, source_url,
                 personalized_message, status, result, searchCnt, fetchCnt,
                 summCnt, persCnt, producer, abandoned, persAnswer,
                 confidence, cacheVars, companies, idx, sleeps>>
  /\ UNCHANGED auxVars

\* a loop without delay
SleepsNever(k) == FALSE

\* main.py line 251: time.sleep(5) after every written row; old main(),
\* lines 546-547: time.sleep(2) unless the company is the last of the list
Sleeps(k) ==
  impl = "main" \/ \E j \in (k + 1)..Len(companies) : TruthyUrl(companies[j])

\* the delay and the step to the next row
between_companies ==
  /\ pc = "written"
  /\ sleeps' = IF Sleeps(idx) THEN sleeps + 1 ELSE sleeps
  /\ NextCompany
  /\ UNCHANGED <<impl, numStrategies, companies, outputs, cache, now, lastPut>>
  /\ UNCHANGED auxVars

RunNext ==
  \/ Next
  \/ skip_row
  \/ write_output
  \/ between_companies

SpecRun == RunInit /\ [][RunNext]_vars

\* ------------------------------------ the cache functions under any caller
CacheInit ==
  /\ impl = "old"
  /\ website = EmptyUrl
  /\ numStrategies = 0
  /\ StartOfRow
  /\ SingleCompany
  /\ ColdCache

\* a call cache_result(name, result)
call_cache_result ==
  \E nm \in Names, o \in Outcomes :
  /\ cache' = cache_result(cache, nm, o, now)
  /\ lastPut' = [lastPut EXCEPT ![nm] = [outcome |-> o, time |-> now]]
  /\ cached' = NoneResult
  /\ lookup' = NoLookup
  /\ UNCHANGED <<pipelineVars, now, putCnt>>
  /\ UNCHANGED <<runVars, auxVars>>

\* a call get_cached_result(name)
call_get_cached_result ==
  \E nm \in Names :
  /\ cached' = get_cached_result(cache, nm, now)
  /\ cache' = files_after_get(cache, nm, now)
  /\ lookup' = [name |-> nm,
                found |-> LookupFound(cache[get_cache_key(nm)], cached')]
  /\ UNCHANGED <<pipelineVars, now, putCnt, lastPut>>
  /\ UNCHANGED <<runVars, auxVars>>

\* a day passes between two calls
tick ==
  /\ now < MaxTime
  /\ now' = now + 1
  /\ cached' = NoneResult
  /\ lookup' = NoLookup
  /\ UNCHANGED <<pipelineVars, cache, putCnt, lastPut>>
  /\ UNCHANGED <<runVars, auxVars>>

CacheNext ==
  \/ call_cache_result
  \/ call_get_cached_result
  \/ tick

SpecCache == CacheInit /\ [][CacheNext]_vars

\* --------------------------------------------------------- SearchService
\* The calls of src/search_service.py on one instance, in any order.
svcFrame ==
  <<pipelineVars, runVars, cacheVars, io, rpc, rgot, rres, fullPuts>>

SvcInit ==
  /\ impl = "main"
  /\ website = EmptyUrl
  /\ numStrategies = 0
  /\ StartOfRow
  /\ SingleCompany
  /\ ColdCache

\* SearchService.clear_queries, lines 23-28
clear_queries ==
  /\ search_queries' = <<>>
  /\ query_map' = EmptyMap
  /\ processed_results' = EmptyMap
  /\ collects' = 0
  /\ svcOp' = [op |-> "clear", id |-> "", query |-> ""]
  /\ UNCHANGED <<svcRet, provider, svcFrame>>

\* SearchService.collect_search_query, lines 30-45
collect_search_query ==
  \E search_query_id \in QueryIds, search_query \in QueryTexts :
  /\ collects < MaxCollects
  /\ LET query_index == QueryIndex(search_queries)
     IN /\ search_queries' = Append(search_queries, search_query)
        /\ query_map' = DictSet(query_map, search_query_id,
                                [processor |-> "processor", args |-> <<>>,
                                 query_index |-> query_index,
                                 original_query |-> search_query])
  /\ collects' = collects + 1
  /\ svcOp' = [op |-> "collect", id |-> search_query_id,
               query |-> search_query]
  /\ UNCHANGED <<processed_results, svcRet, provider, svcFrame>>

\* a caller keeps the processed result of a collected query in the public
\* attribute processed_results (line 15); no method of the class writes it
store_processed_result ==
  \E id \in DOMAIN query_map :
  /\ processed_results' = DictSet(processed_results, id, "processed")
  /\ svcOp' = [op |-> "store", id |-> id, query |-> ""]
  /\ UNCHANGED <<search_queries, query_map, svcRet, collects, provider,
                 svcFrame>>

\* SearchService.execute_all_queries, lines 47-68
execute_all_queries ==
  /\ IF QueueEmpty(search_queries)
     THEN /\ svcRet' = EmptyDict
          /\ provider' = NotCalled
     ELSE \E answer \in ProviderAnswers :
          LET results == perform_google_search(search_queries, answer)
          IN /\ provider' = [called |-> TRUE, queries |-> search_queries,
                             answer |-> answer]
             /\ svcRet' = IF results.kind = "raised" THEN EmptyDict
                          ELSE IF results.items = <<>> THEN EmptyDict
                          ELSE results
  /\ svcOp' = [op |-> "execute", id |-> "", query |-> ""]
  /\ UNCHANGED <<search_queries, query_map, processed_results, collects,
                 svcFrame>>

SvcNext ==
  \/ clear_queries
  \/ collect_search_query
  \/ store_processed_result
  \/ execute_all_queries

SpecSvc == SvcInit /\ [][SvcNext]_vars

\* ------------------------------------------------- the returned outcome
Returned == pc = "done"

\* found: the pipeline took the personalization branch
Found == status \notin {"none", "NoSourceSummarized", "NoFactFound"}

OutFact == IF impl = "main" THEN result.research_summary ELSE result.fact

OutSource == result.source_url

\* <<s, c>> comes before <<t, d>> in strategy-then-rank order
Before(a, b) == a[1] < b[1] \/ (a[1] = b[1] /\ a[2] < b[2])

ValidStrategy(st) == st.Query # <<>> /\ st.Prompt # <<>>

\* the resolver is past strategy s
Left(s) == si > s \/ pc \in {"personalize", "cache_put", "old_main", "done"}

\* the company has no website a domain can be taken from
CompanyHasNoDomain ==
  IF impl = "main"
  THEN ~TruthyUrl(website) \/ website.scheme \notin {"http://", "https://"}
  ELSE ~TruthyUrl(website)

\* length of the content last fetched for result ci
LastFetched == IF impl = "main" THEN content ELSE txt

\* ---------------------------------------------------------------- claims

\* C1 (P1): when the pipeline returns, no search result ranked before the
\* winning (strategy, result) pair was left untried, and when nothing was
\* found no result within the top 3 of any searched strategy was left
\* untried: the outcome is that of the first pair that succeeds.
C1_FirstSuccessWins ==
  Returned =>
    \/ abandoned = <<0, 0>>
    \/ Found /\ ~Before(abandoned, producer)

\* C2 (P2): in every returned outcome, found holds iff the fact is non-empty
\* and iff the source url is non-empty.
C2_OutcomeInvariant ==
  Returned =>
    /\ Found <=> OutFact # <<>>
    /\ Found <=> TruthyUrl(OutSource)

\* C3 (P5): the resolver leaves strategy N with untried results among its
\* top 3 only when one of N's results succeeded.
C3_CandidatesBeforeNextStrategy ==
  (abandoned # <<0, 0>> /\ Left(abandoned[1])) =>
    /\ Truthy(research_summary)
    /\ producer[1] = abandoned[1]
    /\ producer[2] < abandoned[2]

\* C4 (Scenario A): a valid strategy whose query template has no domain
\* placeholder is always attempted: the search provider is called with its
\* rendered query, also for a company without an extractable domain; a
\* valid strategy is skipped only if its template requires the domain.
C4_NoDomainStrategyAttempted ==
  (si >= 1 /\ ValidStrategy(strategy) /\ ~RequiresDomain(strategy.Query)) =>
    /\ searchCnt[si] >= 1
    /\ query = Format(strategy.Query, company_name, domain)

\* C5 (P6): taking a valid strategy whose template requires the domain, for
\* a company without one, makes no search, fetch or summarizer call, sets no
\* status or result, and leaves the resolver at the head of the strategy
\* loop, ready for the next strategy.
C5_InapplicableSkip ==
  [][(/\ pc = "strategy"
      /\ si' = si + 1
      /\ ValidStrategy(strategy')
      /\ RequiresDomain(strategy'.Query)
      /\ CompanyHasNoDomain)
     => (/\ searchCnt' = searchCnt
         /\ fetchCnt' = NoCalls
         /\ summCnt' = NoCalls
         /\ pc' = "strategy"
         /\ status' = status
         /\ result' = result)]_vars

C5_Witness ==
  /\ pc = "strategy"
  /\ si = 2
  /\ ValidStrategy(strategy)
  /\ RequiresDomain(strategy.Query)
  /\ CompanyHasNoDomain
  /\ searchCnt = [s \in 1..MaxStrategies |-> 0]

\* C6: no fact held or returned by the resolver is a refusal marker or an
\* error marker.
C6_RefusalNeverFact ==
  /\ ~IsRefusalMarker(research_summary)
  /\ ~IsErrorMarker(research_summary)
  /\ Returned => (~IsRefusalMarker(OutFact) /\ ~IsErrorMarker(OutFact))

\* C7 as stated: in both pipelines, content that is absent, empty or shorter
\* than 150 characters is never summarized.
C7_ShortContentNotSummarized ==
  (ci >= 1 /\ fetchCnt[ci] >= 1
     /\ (LastFetched = NoneContent \/ LastFetched < MinContentLen))
  => (pc # "summarize" /\ summCnt[ci] = 0)

\* C7 amended: in process_company content that is absent, empty or shorter
\* than 150 characters is never summarized and content of 150 characters or
\* more is; in research_company the limit is 50: content of at most 50
\* characters is never summarized and longer content is.
C7_MinContentLength ==
  (ci >= 1 /\ fetchCnt[ci] >= 1 /\ pc # "raised") =>
     LET limit == IF impl = "main" THEN MinContentLen
                  ELSE OldMinContentLen + 1
     IN IF LastFetched = NoneContent \/ LastFetched < limit
        THEN pc # "summarize" /\ summCnt[ci] = 0
        ELSE pc = "summarize" \/ summCnt[ci] = 1

C7_Witness ==
  /\ impl = "main"
  /\ pc = "candidate"
  /\ ci = 1
  /\ fetchCnt[1] = 1
  /\ content = MinContentLen - 1
  /\ summCnt[1] = 0

\* C8: a returned outcome is found only with a fact that is non-empty, is
\* neither a refusal nor an error marker, and is longer than 20 characters.
C8_UsableFactGate ==
  (Returned /\ Found) =>
    /\ OutFact # <<>>
    /\ ~IsRefusalMarker(OutFact)
    /\ ~IsErrorMarker(OutFact)
    /\ StrLen(OutFact) > OldMinFactLen

\* C9 (Scenario D): when no result yielded a usable fact, the returned
\* record has an empty fact and an empty source url, confidence false, the
\* no-source status, and the personalizer was not called.
C9_ExhaustedOutcome ==
  (Returned /\ ~Truthy(research_summary)) =>
    /\ OutFact = <<>>
    /\ OutSource = EmptyUrl
    /\ ~Found
    /\ status \in {"NoSourceSummarized", "NoFactFound"}
    /\ persCnt = 0
    /\ impl = "old" => result.confidence = FALSE

\* C10 (Scenario C): the source url of a found outcome is the url of the
\* search result whose summarizer answer is the returned fact.
C10_SourceOfFact ==
  (Returned /\ Found) =>
    /\ OutFact = research_summary
    /\ TruthyUrl(OutSource)
    /\ OutSource.s = producer[1]
    /\ OutSource.c = producer[2]
    /\ producer = <<si, ci>>
    /\ summCnt[ci] = 1

C10_Witness ==
  /\ Returned
  /\ Found
  /\ producer[2] = 2
  /\ fetchCnt[1] = 1
  /\ OutSource.c = 2

\* C11: once a candidate has yielded a fact (research_summary is set), no
\* search, fetch or summarizer call is made for the company any more, and no
\* further strategy or candidate is taken.
C11_StopOnSuccess ==
  [][Truthy(research_summary)
       => /\ searchCnt' = searchCnt
          /\ fetchCnt' = fetchCnt
          /\ summCnt' = summCnt
          /\ si' = si
          /\ ci' = ci]_vars

\* a run that returned its fact while a candidate of the producing strategy
\* and a further strategy were still untried
C11_Witness ==
  /\ Returned /\ Found
  /\ producer # <<0, 0>>
  /\ producer[1] < numStrategies
  /\ abandoned = <<producer[1], producer[2] + 1>>

\* C12: no recoverable failure (search error or empty result, a result
\* record without usable url or host, fetch failure, short content, refusal,
\* model or API error) makes the resolver or the pipeline raise: the run
\* never leaves process_company / research_company by an exception.
C12_NeverRaises == pc # "raised"

\* C13: a search that failed or returned no result is not fatal: no fetch
\* and no summarizer call is made for that strategy and the run goes on (it
\* does not end in an exception).
C13_SearchFailureNonFatal ==
  (si >= 1 /\ searchCnt[si] >= 1 /\ n = 0)
    => /\ pc # "raised"
       /\ fetchCnt = NoCalls
       /\ summCnt = NoCalls

\* C14: after cache_result(name, o), a get_cached_result(name) made while
\* less than the expiry window has elapsed returns an outcome equal to o in
\* fact, source_url and confidence.
SameOutcome(a, b) ==
  /\ a.kind = "ResearchResult" /\ b.kind = "ResearchResult"
  /\ a.fact = b.fact
  /\ a.source_url = b.source_url
  /\ a.confidence = b.confidence

LookupAge == now - lastPut[lookup.name].time

\* C15 as stated: get_cached_result returns None exactly when there is no
\* entry or now - created_at exceeds the 30 days; an entry aged exactly 30
\* days is still returned.
C15_AbsentIffAgeExceedsWindow ==
  lookup.found # "none"
    => (cached = NoneResult
          <=> (lastPut[lookup.name] = NoPut
                 \/ LookupAge > CACHE_EXPIRY_DAYS))

\* C15, amended: get_cached_result returns None exactly when there is no
\* entry or now - created_at has reached the 30 days (age >= window); an
\* entry younger than the window is returned with the outcome written, and an
\* expired entry yields None, never a ResearchResult.
C15_AbsentIffAgeReachesWindow ==
  lookup.found # "none"
    => /\ cached = NoneResult
            <=> (lastPut[lookup.name] = NoPut
                   \/ LookupAge >= CACHE_EXPIRY_DAYS)
       /\ cached # NoneResult
            => SameOutcome(cached, lastPut[lookup.name].outcome)

\* a lookup of an entry aged exactly 30 days, which came back as None
C15_Witness ==
  /\ lookup.found = "expired"
  /\ lastPut[lookup.name] # NoPut
  /\ LookupAge = CACHE_EXPIRY_DAYS
  /\ cached = NoneResult

\* C16: get_cached_result never creates, modifies, re-timestamps or deletes
\* a cache file and returns None on a miss; the files change only through
\* cache_result.
C16_LookupReadOnly ==
  [][/\ lastPut' = lastPut => cache' = cache
     /\ lookup'.found \in {"miss", "expired"} => cached' = NoneResult]_vars

\* a lookup found an expired file and the file is still there, as written
C16_Witness ==
  /\ lookup.found = "expired"
  /\ LookupAge > CACHE_EXPIRY_DAYS
  /\ cache[get_cache_key(lookup.name)] =
       cache_result(cache, lookup.name, lastPut[lookup.name].outcome,
                    lastPut[lookup.name].time)[get_cache_key(lookup.name)]

\* C17: when the lookup returned a cached outcome the pipeline uses it: no
\* search, fetch or summarizer call is made for the company and nothing is
\* written to the cache.
C17_HitSkipsResolver ==
  (impl = "old" /\ lookup.found = "hit")
    => /\ pc \in {"old_main", "done"}
       /\ \A s \in 1..MaxStrategies : searchCnt[s] = 0
       /\ fetchCnt = NoCalls
       /\ summCnt = NoCalls
       /\ putCnt = 0
       /\ cache[get_cache_key(company_name)].timestamp
            = isoformat(lastPut[company_name].time)
       /\ research_summary = cached.fact
       /\ source_url = cached.source_url
       /\ Returned => (OutFact = cached.fact /\ OutSource = cached.source_url)

\* a company served from the cache, personalized and written out
C17_Witness ==
  /\ impl = "old" /\ lookup.found = "hit"
  /\ Returned
  /\ status = "Good"
  /\ persCnt = 1
  /\ numStrategies > 0

\* C18: after a lookup that returned nothing, the pipeline writes the cache
\* exactly when the fresh resolution found a fact; a resolution without a
\* fact leaves the cache as it was.
C18_PutIffFound ==
  (impl = "old" /\ lookup.found \in {"miss", "expired"})
    => /\ pc \notin {"old_main", "done"} => putCnt = 0
       /\ pc \in {"old_main", "done"}
            => /\ putCnt = (IF Truthy(research_summary) THEN 1 ELSE 0)
               /\ putCnt = 1
                    => /\ lastPut[company_name].time = now
                       /\ cache[get_cache_key(company_name)].fact
                            = research_summary
               /\ putCnt = 0
                    => (lookup.found = "miss"
                          <=> cache[get_cache_key(company_name)] = NoFile)
       /\ Returned => (Found <=> putCnt = 1)

\* a company that missed the cache, was resolved and was written to it
C18_Witness ==
  /\ impl = "old" /\ lookup.found = "miss"
  /\ Returned /\ Found
  /\ putCnt = 1
  /\ cache[get_cache_key(company_name)].fact = OutFact

StatusClass ==
  CASE status \in {"Personalized", "Good"} -> "Personalized"
    [] status = "PersonalizationFailed" -> "PersonalizationFailed"
    [] status \in {"NoSourceSummarized", "NoFactFound"} -> "NoSourceFound"
    [] OTHER -> "other"

\* C20: the status of a returned record is one of three values: Personalized
\* exactly when a fact was found and the personalizer returned neither an
\* error nor a refusal, PersonalizationFailed exactly when a fact was found
\* and the personalizer returned an error or a refusal, NoSourceFound exactly
\* when no fact was found; the personalized text of the record is empty
\* unless the status is Personalized.
C20_StatusClosedSet ==
  Returned
    => /\ StatusClass \in {"Personalized", "PersonalizationFailed",
                           "NoSourceFound"}
       /\ StatusClass = "Personalized"
            <=> (Truthy(research_summary) /\ persAnswer = "ok")
       /\ StatusClass = "PersonalizationFailed"
            <=> (Truthy(research_summary)
                   /\ persAnswer \in {"error", "refusal"})
       /\ StatusClass = "NoSourceFound" <=> ~Truthy(research_summary)
       /\ StatusClass # "Personalized" => result.personalized_message = <<>>

\* positions of a company whose resolution is still under way
Resolving ==
  pc \in {"row", "cache_get", "strategy", "candidate", "summarize",
          "cache_put", "personalize", "old_main"}

\* C21: the personalizer is called for a company exactly when its outcome
\* carries a fact (from the cache or from a fresh resolution), at most once,
\* and only when the resolution of the company has finished.
C21_PersonalizerIffFound ==
  /\ persCnt <= 1
  /\ persCnt = 1 => ~Resolving
  /\ Returned => (persCnt = 1 <=> OutFact # <<>>)

\* a freshly resolved company for which the personalizer was called once
C21_Witness ==
  /\ Returned
  /\ persCnt = 1
  /\ OutFact # <<>>
  /\ producer # <<0, 0>>
  /\ summCnt[producer[2]] = 1

\* row j is handed to the pipeline
Handed(j) == TruthyUrl(companies[j])

\* number of records written for row j
Written(j) == Cardinality({k \in 1..Len(outputs) : outputs[k].company = j})

\* records are written at most once per handed row and in row order, and
\* every handed row before the current one has its record
RecordsInOrder ==
  /\ \A j \in 1..Len(companies) :
       /\ Written(j) <= 1
       /\ Written(j) = 1 => Handed(j)
       /\ (j < idx \/ pc = "finished") /\ Handed(j) => Written(j) = 1
  /\ \A k, l \in 1..Len(outputs) :
       k < l => /\ outputs[k].company < outputs[l].company
                /\ outputs[k].row < outputs[l].row

\* C22: in a run over a list of companies, whatever fails for single
\* companies, exactly one record is written for each company handed to the
\* pipeline, in row order, and no failure while one company is processed
\* leaves that company or a later one without its record.
C22_OneRecordPerCompany ==
  /\ RecordsInOrder
  /\ pc = "raised" => \A j \in idx..Len(companies) : ~Handed(j)

\* C23: nothing is retried inside a resolution: the search provider is
\* called at most once per strategy, and every candidate is fetched at most
\* once and summarized at most once.
C23_NoRetry ==
  /\ \A s \in 1..MaxStrategies : searchCnt[s] <= 1
  /\ \A c \in 1..MaxResults : fetchCnt[c] <= 1 /\ summCnt[c] <= 1

\* C24: of the result list of a strategy only the first three records are
\* considered, one after the other in the order of the list; the fourth and
\* later results are never fetched or summarized, even when the first three
\* all fail.
C24_TopThreeInOrder ==
  [][/\ ci' <= 3 /\ ci' <= n'
     /\ ci' # ci => (ci' = ci + 1 \/ ci' = 0)
     /\ \A c \in 1..MaxResults :
          /\ fetchCnt'[c] > fetchCnt[c] => (c = ci' /\ c <= 3)
          /\ summCnt'[c] > summCnt[c] => (c = ci /\ c <= 3)]_vars

\* a strategy with more than three results whose first three were fetched
\* in vain: the run ended without a fact and without touching the fourth
C24_Witness ==
  /\ Returned /\ ~Found
  /\ n > 3
  /\ \A c \in 1..3 : fetchCnt[c] = 1
  /\ fetchCnt[4] = 0 /\ summCnt[4] = 0

\* a service call has been made for the company of the current row
CallsMade ==
  \/ \E s \in 1..MaxStrategies : searchCnt[s] > 0
  \/ \E c \in 1..MaxResults : fetchCnt[c] > 0 \/ summCnt[c] > 0
  \/ persCnt > 0

\* C25: companies are processed one after the other: when a search, fetch,
\* summarizer or personalizer call is made for a company, every company
\* handed to the pipeline before it has its output record written, and a
\* sleep of the loop lies between that record and the call.
C25_Sequential ==
  (CallsMade /\ pc # "finished")
    => /\ \A j \in 1..(idx - 1) : Handed(j) => Written(j) = 1
       /\ \A k \in 1..Len(outputs) :
            outputs[k].company < idx => sleeps >= k

\* the second company is being searched for after the record of the first
\* was written and the loop slept once
C25_Witness ==
  /\ idx = 2
  /\ pc = "candidate"
  /\ searchCnt[1] >= 1
  /\ Len(outputs) = 1 /\ outputs[1].company = 1
  /\ sleeps = 1

\* C27: every outcome the pipeline stores in the cache has a non-empty
\* fact, a non-empty source_url and confidence true, so a cache hit always
\* leads to the personalization branch and never to the no-fact status.
C27_CacheHoldsOnlyFacts ==
  /\ \A k \in Keys :
       cache[k].kind = "json"
         => /\ cache[k].fact \notin {<<>>, NoneText}
            /\ TruthyUrl(cache[k].source_url)
            /\ cache[k].confidence = TRUE
  /\ (lookup.found = "hit" /\ pc \in {"done", "written"})
       => /\ status = "Good"
          /\ persCnt = 1

\* a fact resolved after a miss and stored, source and confidence included
C27_Witness ==
  /\ impl = "old" /\ Returned
  /\ lookup.found \in {"miss", "expired"}
  /\ putCnt = 1
  /\ lastPut[company_name].time = now
  /\ cache[get_cache_key(company_name)].source_url = OutSource
  /\ TruthyUrl(OutSource)
  /\ cache[get_cache_key(company_name)].confidence = TRUE

\* C28: a cache fault never aborts the company.  A lookup of a file that
\* exists but cannot be read or parsed returns absent, raises nothing and
\* leaves every cache file as it was, and the pipeline goes on to resolve
\* the company; a write that fails is swallowed, and the pipeline goes on to
\* the personalization branch.
C28_CacheFaultsSwallowed ==
  [][/\ pc = "cache_get" =>
          /\ pc' \in {"strategy", "old_main"}
          /\ cache' = cache
          /\ cache[get_cache_key(company_name)] \in UnreadableFiles
               => cached' = NoneResult /\ pc' = "strategy"
     /\ pc = "cache_put" => pc' = "old_main"]_vars

\* a company whose file could not be read and whose write failed has
\* returned
C28_Witness ==
  /\ Returned
  /\ lookup.found = "unreadable"
  /\ putCnt = 1
  /\ lastPut[company_name] = NoPut

\* the company's cache file
RaceFile == cache[get_cache_key(company_name)]

\* some pipeline is between the open and the dump of its write
Writing == \E p \in Procs : rpc[p] = "dump"

\* each lookup returned absent or an outcome written in full
RaceGetsWhole ==
  \A p \in Procs : rgot[p] = NoneResult \/ rgot[p] \in fullPuts

\* C26: under pipelines that interleave their lookups and writes of one
\* company, the cache record is never corrupted: every lookup returned
\* absent or an outcome that some write wrote in full, and whenever no
\* write is under way the file is absent or holds exactly one record that
\* some write wrote in full.
C26_RecordNeverCorrupted ==
  /\ RaceGetsWhole
  /\ ~Writing =>
       \/ RaceFile.kind = "absent"
       \/ /\ RaceFile.kind = "json"
          /\ ResearchResult(RaceFile.fact, RaceFile.source_url,
                            RaceFile.confidence) \in fullPuts

\* C29: after any sequence of collect_search_query and clear_queries calls,
\* every entry of query_map has a query_index that is a valid index into
\* search_queries, and the query at that index is the entry's
\* original_query.  A collect of an id already present replaces the entry of
\* the id and still appends, so that len(search_queries) is the number of
\* collects since the last clear and is at least len(query_map).
\* clear_queries leaves search_queries, query_map and processed_results
\* empty together.
C29_QueryMapIndexesQueue ==
  /\ \A id \in DOMAIN query_map :
       /\ query_map[id].query_index \in 0..(Len(search_queries) - 1)
       /\ At(search_queries, query_map[id].query_index)
            = query_map[id].original_query
  /\ Len(search_queries) = collects
  /\ Cardinality(DOMAIN query_map) <= Len(search_queries)
  /\ svcOp.op = "collect" =>
       /\ svcOp.id \in DOMAIN query_map
       /\ query_map[svcOp.id].query_index = Len(search_queries) - 1
       /\ query_map[svcOp.id].original_query = svcOp.query
  /\ svcOp.op = "clear" =>
       /\ search_queries = <<>>
       /\ query_map = EmptyMap
       /\ processed_results = EmptyMap

\* an id was collected twice with different queries: the queue is longer
\* than the map, and the entry is that of the second collect
C29_Witness ==
  /\ svcOp.op = "collect"
  /\ Len(search_queries) = 2
  /\ Cardinality(DOMAIN query_map) = 1
  /\ search_queries[1] # search_queries[2]

\* C30: execute_all_queries never raises and never modifies search_queries,
\* query_map or processed_results.  With an empty queue it returns {} and
\* does not call the provider; when the provider fails or returns nothing it
\* returns {}.
C30_ExecuteIsSafe ==
  [][svcOp'.op = "execute" =>
       /\ svcRet'.kind \in {"dict", "list"}
       /\ search_queries' = search_queries
       /\ query_map' = query_map
       /\ processed_results' = processed_results
       /\ search_queries = <<>> => svcRet' = EmptyDict /\ ~provider'.called
       /\ provider'.called => provider'.queries = search_queries
       /\ (provider'.called /\ provider'.answer # "items")
             => svcRet' = EmptyDict]_vars

\* the queue held queries, the actor call failed and {} was returned, with
\* the stored results still in place
C30_Witness ==
  /\ svcOp.op = "execute"
  /\ search_queries # <<>>
  /\ processed_results # EmptyMap
  /\ provider.called
  /\ provider.answer = "raises"
  /\ svcRet = EmptyDict

====
